---- MODULE Spec2Model ----
(***************************************************************************)
(* The task queue of backend/app/utils/queue_manager.py: QueueManager with *)
(* its task table, its asyncio FIFO, the start/stop lifecycle and the      *)
(* worker loop _process_queue/_execute_task, as a state machine.           *)
(*                                                                         *)
(* Scheduling is that of one asyncio event loop: a step of the model is    *)
(* the code that runs between two suspension points of one coroutine.      *)
(* The suspension points of the worker are the three awaits of the source: *)
(* wait_for(self._queue.get()) (line 137), the awaited callable (line 160) *)
(* and asyncio.sleep(task.retry_delay) (line 180); self._queue.put on the  *)
(* unbounded queue (line 183) never suspends.  Task.cancel() makes the     *)
(* cancelled coroutine raise CancelledError at the await it is suspended   *)
(* in, before anything scheduled later runs, and the worker has no handler *)
(* for it (CancelledError is a BaseException; lines 147 and 169 catch      *)
(* Exception), so the request and the end of the loop are one step here.   *)
(* An awaited callable is taken to let a cancellation through.             *)
(*                                                                         *)
(* The source needs Python 3.10 or later (`dict | None` annotations).  On  *)
(* 3.10 and 3.11 asyncio.wait_for runs self._queue.get() in a task of its  *)
(* own: the record leaves the FIFO when that task runs, and the loop gets  *)
(* it when wait_for resumes, some event-loop iterations later.  A          *)
(* cancellation that reaches wait_for in between is answered with the      *)
(* record (`except CancelledError: if fut.done(): return fut.result()`)    *)
(* and is lost.  From 3.12 on wait_for awaits get() in place and the two   *)
(* steps are one.  The model has the two steps, which covers both.         *)
(***************************************************************************)
EXTENDS Integers, Sequences, FiniteSets, TLC

\* Bounds of the model.
MaxTasks == 2        \* add_task calls
MaxLoops == 2        \* worker loops created by start()
MaxRetries == 2      \* largest max_retries passed to add_task
MaxAttempts == 4     \* largest max_retries of the first task of InitSubmitted
MaxDelay == 2        \* largest retry_delay of the first task of InitDelay
MaxStreamRetries == 3  \* largest max_retries of a stream_chat_completion call

\* TaskStatus
PENDING == "pending"
RUNNING == "running"
COMPLETED == "completed"
FAILED == "failed"
RETRYING == "retrying"

TaskStatus == {PENDING, RUNNING, COMPLETED, FAILED, RETRYING}

\* Python's None, for result, error, _processing_task and a loop's task.
None == 0

VARIABLES
    tasks,            \* self.tasks: the records, keyed by identifier 1..Len(tasks)
    running,          \* self.running
    queue,            \* self._queue: identifiers of the records in the FIFO
    unfinished,       \* self._queue._unfinished_tasks (put / task_done)
    processing_task,  \* self._processing_task: a loop of loops, or None
    loops,            \* the asyncio tasks created for _process_queue()
    puts,             \* the scheduled self._queue.put(task) tasks of add_task
    stopping,         \* loops that a suspended stop() awaits (line 63)
    calls,            \* per record, how often its func has been invoked
    reply,            \* what the query made in the last step returned
    stream            \* the stream_chat_completion generator being consumed

vars == <<tasks, running, queue, unfinished, processing_task, loops, puts, stopping, calls, reply,
          stream>>

\* No query was made in the last step.
NoReply == [op |-> "none"]

\* No stream_chat_completion call is being consumed.
NoStream == [pc |-> "none"]

\* The value the callable returns on its k-th invocation, and str(e) of the
\* exception of its k-th invocation: distinct per invocation, never None.
ReturnValue(k) == k
ErrorText(k) == k

\* retry_delay of add_task when the caller passes none, in seconds.
DefaultRetryDelay == 20

\* QueueTask(...) as add_task constructs it (dataclass defaults), and with
\* the retry_delay the caller passes.
QueueTask(mr) ==
    [status |-> PENDING, retry_count |-> 0, max_retries |-> mr,
     retry_delay |-> DefaultRetryDelay,
     result |-> None, error |-> None,
     started_at |-> FALSE, completed_at |-> FALSE]

QueueTaskDelay(mr, rd) == [QueueTask(mr) EXCEPT !.retry_delay = rd]

\* The seconds asyncio.sleep is called with before the record is put back:
\* task.retry_delay, whatever retry_count is.
RetryWaitDoubling(rec) == rec.retry_delay * 2^rec.retry_count
RetryWait(rec) == rec.retry_delay

\* Positions of a worker loop.
\*   ready      created by start(), first step not yet run
\*   get        suspended in wait_for(self._queue.get(), timeout=1.0)
\*   got        still suspended in wait_for, whose get() has taken a record
\*   call       inside a callable that does not suspend (the event loop is
\*              held: a plain function, or a coroutine that never awaits)
\*   await      suspended inside an awaited callable
\*   sleep      suspended in asyncio.sleep(task.retry_delay)
\*   done       ended, as in Task.done(): left the while loop, or ended by
\*              CancelledError (nothing in the source tells the two apart:
\*              stop() passes over the CancelledError of its await)
Pending(l) == l.pc \in {"ready", "get", "got", "call", "await", "sleep"}
Executing(l) == l.pc \in {"call", "await"}

LoopIds == 1..Len(loops)
TaskIds == 1..Len(tasks)

\* A callable that does not suspend holds the event loop: nothing else runs.
Blocked == \E w \in LoopIds : loops[w].pc = "call"

\* `if not self.running` of start().
ShouldLaunch(r) == ~r

\* `while self.running` of _process_queue: where the loop goes next.
LoopTop(r) == IF r THEN "get" ELSE "done"

\* `if task.retry_count < task.max_retries` of _execute_task.
ShouldRetryEarly(rc, mr) == rc + 1 < mr
ShouldRetryLate(rc, mr) == rc <= mr
ShouldRetry(rc, mr) == rc < mr

\* _execute_task, lines 153-154: the record when its attempt starts.
StartedKeepsStatus(rec) == [rec EXCEPT !.started_at = TRUE]
Started(rec) == [rec EXCEPT !.status = RUNNING, !.started_at = TRUE]

\* _execute_task, lines 160-165: the record when the callable has returned.
SucceededKeepsStatus(rec) ==
    [rec EXCEPT !.result = ReturnValue(rec.retry_count + 1)]
Succeeded(rec) ==
    [rec EXCEPT !.result = ReturnValue(rec.retry_count + 1),
                !.status = COMPLETED,
                !.completed_at = TRUE]

\* _execute_task, lines 169-186: the record when the callable has raised
\* an Exception (the sleep and the put of the retry branch come after).
Failed(rec) ==
    LET rc == rec.retry_count + 1 IN
    IF ShouldRetry(rc, rec.max_retries)
    THEN [rec EXCEPT !.error = ErrorText(rc), !.retry_count = rc,
                     !.status = RETRYING]
    ELSE [rec EXCEPT !.error = ErrorText(rc), !.retry_count = rc,
                     !.status = FAILED, !.completed_at = TRUE]

\* The record of the attempt a CancelledError ends: `except Exception`
\* (line 169) does not catch it, so nothing is written.
OnCancel(rec) == rec

\* self._processing_task.cancel() of stop(), for a loop that has not ended:
\* the loop raises CancelledError where it is suspended and ends, except in
\* a wait_for whose get() is done, which returns the record instead.
Cancel(l) == IF l.pc = "got" THEN l ELSE [pc |-> "done", task |-> None]

\* The loop after `except Exception` of _execute_task has dealt with the
\* failure of the last attempt: _execute_task returns normally and the loop
\* goes back to `while self.running`.
Reraise(r) == [pc |-> "done", task |-> None]
Absorb(r) == [pc |-> LoopTop(r), task |-> None]

\* self._queue.task_done(); a ValueError would be logged by line 147.
task_done(n) == IF n > 0 THEN n - 1 ELSE n

Init ==
    /\ tasks = <<>>
    /\ running = FALSE
    /\ queue = <<>>
    /\ unfinished = 0
    /\ processing_task = None
    /\ loops = <<>>
    /\ puts = <<>>
    /\ stopping = {}
    /\ calls = <<>>
    /\ reply = NoReply
    /\ stream = NoStream

\* start()
Start ==
    /\ ~Blocked
    /\ running \/ Len(loops) < MaxLoops
    /\ IF ShouldLaunch(running)
       THEN /\ Len(loops) < MaxLoops
            /\ running' = TRUE
            /\ loops' = Append(loops, [pc |-> "ready", task |-> None])
            /\ processing_task' = Len(loops) + 1
       ELSE UNCHANGED <<running, loops, processing_task>>
    /\ UNCHANGED <<tasks, queue, unfinished, puts, stopping, calls>>
    /\ reply' = NoReply
    /\ UNCHANGED stream

\* stop(), up to its await
Stop ==
    /\ ~Blocked
    /\ running' = FALSE
    /\ IF processing_task # None /\ Pending(loops[processing_task])
       THEN /\ loops' = [loops EXCEPT ![processing_task] = Cancel(@)]
            /\ stopping' = stopping \cup {processing_task}
            /\ LET t == loops[processing_task].task IN
               tasks' = IF t # None /\ loops[processing_task].pc = "await"
                        THEN [tasks EXCEPT ![t] = OnCancel(@)]
                        ELSE tasks
       ELSE UNCHANGED <<tasks, loops, stopping>>
    /\ UNCHANGED <<queue, unfinished, processing_task, puts, calls>>
    /\ reply' = NoReply
    /\ UNCHANGED stream

\* stop() resumes from `await self._processing_task`, the awaited loop
\* having ended, and returns
StopReturn(w) ==
    /\ ~Blocked
    /\ w \in stopping
    /\ ~Pending(loops[w])
    /\ stopping' = stopping \ {w}
    /\ UNCHANGED <<tasks, running, queue, unfinished, processing_task, loops, puts, calls>>
    /\ reply' = NoReply
    /\ UNCHANGED stream

\* self._queue.put(task) on the unbounded asyncio.Queue(): the record goes
\* to the tail at once.
put_front(q, t) == <<t>> \o q
put_nowait(q, t) == Append(q, t)

\* str(uuid.uuid4()): an identifier that is not in the table (a collision
\* of two random UUIDs is not modelled); identifiers are numbered in the
\* order of issue.
uuid4(table) == Len(table) + 1

\* asyncio.create_task(self._queue.put(task)): the put is scheduled behind
\* the puts scheduled before it.
PutNotScheduled(p, id) == p
PutScheduled(p, id) == Append(p, id)

\* add_task(name, func, max_retries=mr)
AddTask(mr) ==
    /\ ~Blocked
    /\ Len(tasks) < MaxTasks
    /\ tasks' = Append(tasks, QueueTask(mr))
    /\ puts' = PutScheduled(puts, uuid4(tasks))
    /\ calls' = Append(calls, 0)
    /\ UNCHANGED <<running, queue, unfinished, processing_task, loops, stopping>>
    /\ reply' = NoReply
    /\ UNCHANGED stream

\* the task made by asyncio.create_task(self._queue.put(task)) runs
PutRun ==
    /\ ~Blocked
    /\ puts # <<>>
    /\ queue' = put_nowait(queue, Head(puts))
    /\ unfinished' = unfinished + 1
    /\ puts' = Tail(puts)
    /\ UNCHANGED <<tasks, running, processing_task, loops, stopping, calls>>
    /\ reply' = NoReply
    /\ UNCHANGED stream

\* first step of _process_queue()
WorkerBegin(w) ==
    /\ ~Blocked
    /\ loops[w].pc = "ready"
    /\ loops' = [loops EXCEPT ![w].pc = LoopTop(running)]
    /\ UNCHANGED <<tasks, running, queue, unfinished, processing_task, puts, stopping, calls>>
    /\ reply' = NoReply
    /\ UNCHANGED stream

\* What a get() of asyncio.Queue() takes and what it leaves: the queue of
\* __init__ is the FIFO one (popleft), not LifoQueue.
get_peek(q) == <<Head(q), q>>
get_lifo(q) == <<q[Len(q)], SubSeq(q, 1, Len(q) - 1)>>
get_nowait(q) == <<Head(q), Tail(q)>>

\* self._queue.get() takes the record at the head of the FIFO.  The event
\* loop runs what is scheduled in the order of scheduling, so a loop whose
\* get() has taken a record resumes before a get() that takes a later one:
\* ExecuteTask of the first comes before QueueGet of the second.
QueueGet(w) ==
    /\ ~Blocked
    /\ loops[w].pc = "get"
    /\ \A v \in LoopIds : loops[v].pc # "got"
    /\ queue # <<>>
    /\ loops' = [loops EXCEPT ![w] = [pc |-> "got", task |-> get_nowait(queue)[1]]]
    /\ queue' = get_nowait(queue)[2]
    /\ UNCHANGED <<tasks, running, unfinished, processing_task, puts, stopping, calls>>
    /\ reply' = NoReply
    /\ UNCHANGED stream

\* wait_for returns the record; _execute_task marks it RUNNING and invokes
\* the callable, which suspends or not
ExecuteTask(w, suspends) ==
    /\ ~Blocked
    /\ loops[w].pc = "got"
    /\ LET t == loops[w].task IN
       /\ tasks' = [tasks EXCEPT ![t] = Started(@)]
       /\ calls' = [calls EXCEPT ![t] = @ + 1]
       /\ loops' = [loops EXCEPT ![w].pc = IF suspends THEN "await" ELSE "call"]
    /\ UNCHANGED <<running, queue, unfinished, processing_task, puts, stopping>>
    /\ reply' = NoReply
    /\ UNCHANGED stream

\* the callable returns a value
CallableReturns(w) ==
    /\ Executing(loops[w])
    /\ tasks' = [tasks EXCEPT ![loops[w].task] = Succeeded(@)]
    /\ unfinished' = task_done(unfinished)
    /\ loops' = [loops EXCEPT ![w] = [pc |-> LoopTop(running), task |-> None]]
    /\ UNCHANGED <<running, queue, processing_task, puts, stopping, calls>>
    /\ reply' = NoReply
    /\ UNCHANGED stream

\* the callable raises an Exception
CallableRaises(w) ==
    /\ Executing(loops[w])
    /\ LET t == loops[w].task IN
       /\ tasks' = [tasks EXCEPT ![t] = Failed(@)]
       /\ IF tasks'[t].status = RETRYING
          THEN /\ loops' = [loops EXCEPT ![w] =
                                 [pc |-> "sleep", task |-> t,
                                  wait |-> RetryWait(tasks'[t])]]
               /\ UNCHANGED unfinished
          ELSE /\ loops' = [loops EXCEPT ![w] = Absorb(running)]
               /\ unfinished' = task_done(unfinished)
    /\ UNCHANGED <<running, queue, processing_task, puts, stopping, calls>>
    /\ reply' = NoReply
    /\ UNCHANGED stream

\* the callable raises asyncio.CancelledError itself
CallableCancelled(w) ==
    /\ Executing(loops[w])
    /\ loops' = [loops EXCEPT ![w] = [pc |-> "done", task |-> None]]
    /\ UNCHANGED <<tasks, running, queue, unfinished, processing_task, puts, stopping, calls>>
    /\ reply' = NoReply
    /\ UNCHANGED stream

\* asyncio.sleep(task.retry_delay) is over: the record is put back
RetrySleepDone(w) ==
    /\ ~Blocked
    /\ loops[w].pc = "sleep"
    /\ queue' = put_nowait(queue, loops[w].task)
    /\ unfinished' = task_done(unfinished + 1)
    /\ loops' = [loops EXCEPT ![w] = [pc |-> LoopTop(running), task |-> None]]
    /\ UNCHANGED <<tasks, running, processing_task, puts, stopping, calls>>
    /\ reply' = NoReply
    /\ UNCHANGED stream

Next ==
    \/ Start
    \/ Stop
    \/ \E w \in LoopIds : StopReturn(w)
    \/ \E mr \in 0..MaxRetries : AddTask(mr)
    \/ PutRun
    \/ \E w \in LoopIds : WorkerBegin(w)
    \/ \E w \in LoopIds : QueueGet(w)
    \/ \E w \in LoopIds : \E suspends \in BOOLEAN : ExecuteTask(w, suspends)
    \/ \E w \in LoopIds : CallableReturns(w)
    \/ \E w \in LoopIds : CallableRaises(w)
    \/ \E w \in LoopIds : CallableCancelled(w)
    \/ \E w \in LoopIds : RetrySleepDone(w)

Spec == Init /\ [][Next]_vars

TypeOK ==
    /\ running \in BOOLEAN
    /\ \A t \in TaskIds : tasks[t].status \in TaskStatus
    /\ \A i \in 1..Len(queue) : queue[i] \in TaskIds
    /\ processing_task \in {None} \cup LoopIds
    /\ stopping \subseteq LoopIds
    /\ unfinished \in Nat
    /\ Len(calls) = Len(tasks)

\* The worker steps of loop w, guarded so that they are defined for every w.
WorkerStep(w) ==
    /\ w \in LoopIds
    /\ \/ WorkerBegin(w)
       \/ QueueGet(w)
       \/ \E suspends \in BOOLEAN : ExecuteTask(w, suspends)
       \/ RetrySleepDone(w)

\* The callable invoked by loop w ends, one way or another.
CallableEnds(w) ==
    /\ w \in LoopIds
    /\ \/ CallableReturns(w)
       \/ CallableRaises(w)
       \/ CallableCancelled(w)

\* The event loop runs every scheduled task and timer, and a callable that
\* was invoked ends; start, stop and add_task are the callers' choice.
Fairness ==
    /\ WF_vars(PutRun)
    /\ \A w \in 1..MaxLoops : WF_vars(WorkerStep(w))
    /\ \A w \in 1..MaxLoops : WF_vars(CallableEnds(w))

LiveSpec == Init /\ [][Next]_vars /\ Fairness

\* The manager with the worker running and not stopped: nobody calls
\* stop(), and a callable returns or raises an Exception (it does not raise
\* CancelledError itself).
NextRunning ==
    \/ Start
    \/ \E mr \in 0..MaxRetries : AddTask(mr)
    \/ PutRun
    \/ \E w \in LoopIds : WorkerBegin(w)
    \/ \E w \in LoopIds : QueueGet(w)
    \/ \E w \in LoopIds : \E suspends \in BOOLEAN : ExecuteTask(w, suspends)
    \/ \E w \in LoopIds : CallableReturns(w)
    \/ \E w \in LoopIds : CallableRaises(w)
    \/ \E w \in LoopIds : RetrySleepDone(w)

RunningSpec == Init /\ [][NextRunning]_vars /\ Fairness

\* Python floats, as exact fractions num/den: k as a float, a / b (b = 0 is
\* ZeroDivisionError, kept as den = 0), q * k and k + q, and p < q for
\* fractions with positive den.  Rounding is not modelled.
Whole(k) == [num |-> k, den |-> 1]
RatioInverted(a, b) == [num |-> b, den |-> a]
Ratio(a, b) == [num |-> a, den |-> b]
Times(q, k) == [num |-> q.num * k, den |-> q.den]
Plus(k, q) == [num |-> k * q.den + q.num, den |-> q.den]
Less(p, q) == p.num * q.den < q.num * p.den

\* _calculate_progress(task)
_calculate_progress(rec) ==
    CASE rec.status = COMPLETED -> Whole(100)
      [] rec.status = FAILED -> Whole(0)
      [] rec.status = RETRYING ->
             Plus(50, Times(Ratio(rec.retry_count, rec.max_retries), 30))
      [] rec.status = RUNNING -> Whole(50)
      [] rec.status = PENDING -> Whole(0)
      [] OTHER -> Whole(0)

\* None where a dict is expected, and the truth value of a dict or None
\* (`if not status`): the empty function stands for None, which no
\* snapshot equals.
NoDict == <<>>
Truthy(d) == DOMAIN d # {}

\* The projection of a record that get_task_status returns.
Snapshot(id, rec) ==
    [id |-> id,
     status |-> rec.status,
     retry_count |-> rec.retry_count,
     max_retries |-> rec.max_retries,
     progress |-> _calculate_progress(rec),
     started_at |-> rec.started_at,
     completed_at |-> rec.completed_at,
     error |-> rec.error]

\* get_task_status(task_id): the snapshot, or None for an unknown id.
get_or_default(id) ==
    Snapshot(id, IF id \in TaskIds THEN tasks[id] ELSE QueueTask(0))
get_task_status(id) ==
    IF id \notin TaskIds
    THEN NoDict
    ELSE Snapshot(id, tasks[id])

\* get_all_tasks(): the snapshots in the order of the table's keys.
get_all_tasks == [id \in TaskIds |-> get_task_status(id)]

\* routers/queue.py, GET /api/queue/status/{task_id}: the response.  The
\* HTTPException(404) of line 15 is raised inside the try block, and
\* HTTPException is an Exception, so `except Exception` of line 17 catches
\* it and raises HTTPException(500).
HTTPException(code) == [status_code |-> code]
ExceptException(e) == HTTPException(500)
status_route(id) ==
    LET status == get_task_status(id) IN
    IF ~Truthy(status)
    THEN ExceptException(HTTPException(404))
    ELSE [status_code |-> 200, body |-> status]

\* The identifiers a caller may ask about: issued ones and unknown ones.
QueryIds == 1..(MaxTasks + 1)

\* await queue_manager.get_task_status(task_id)
GetTaskStatus(id) ==
    /\ ~Blocked
    /\ reply' = [op |-> "get_task_status", arg |-> id,
                 value |-> get_task_status(id)]
    /\ UNCHANGED <<tasks, running, queue, unfinished, processing_task, loops, puts, stopping, calls>>
    /\ UNCHANGED stream

\* await queue_manager.get_all_tasks()
GetAllTasks ==
    /\ ~Blocked
    /\ reply' = [op |-> "get_all_tasks", arg |-> None, value |-> get_all_tasks]
    /\ UNCHANGED <<tasks, running, queue, unfinished, processing_task, loops, puts, stopping, calls>>
    /\ UNCHANGED stream

\* GET /api/queue/status/{task_id}
StatusRoute(id) ==
    /\ ~Blocked
    /\ reply' = [op |-> "status_route", arg |-> id, value |-> status_route(id)]
    /\ UNCHANGED <<tasks, running, queue, unfinished, processing_task, loops, puts, stopping, calls>>
    /\ UNCHANGED stream

\* The running manager with its status queries.
NextQuery ==
    \/ Start
    \/ \E mr \in 0..MaxRetries : AddTask(mr)
    \/ PutRun
    \/ \E w \in LoopIds : WorkerBegin(w)
    \/ \E w \in LoopIds : QueueGet(w)
    \/ \E w \in LoopIds : \E suspends \in BOOLEAN : ExecuteTask(w, suspends)
    \/ \E w \in LoopIds : CallableReturns(w)
    \/ \E w \in LoopIds : CallableRaises(w)
    \/ \E w \in LoopIds : RetrySleepDone(w)
    \/ \E id \in QueryIds : GetTaskStatus(id)
    \/ GetAllTasks
    \/ \E id \in QueryIds : StatusRoute(id)

QuerySpec == Init /\ [][NextQuery]_vars

\* A new manager on which add_task(..., max_retries=mr) has been called
\* once, for a max_retries that gives a task several retries.
InitSubmitted ==
    /\ \E mr \in 0..MaxAttempts : tasks = <<QueueTask(mr)>>
    /\ running = FALSE
    /\ queue = <<>>
    /\ unfinished = 0
    /\ processing_task = None
    /\ loops = <<>>
    /\ puts = PutScheduled(<<>>, uuid4(<<>>))
    /\ stopping = {}
    /\ calls = <<0>>
    /\ reply = NoReply
    /\ stream = NoStream

ProgressSpec == InitSubmitted /\ [][NextQuery]_vars

\* One task submitted with a retry_delay of the caller's, before anything
\* else happens, and the manager then running and not stopped.
InitDelay ==
    /\ \E mr \in 0..MaxAttempts : \E rd \in 1..MaxDelay :
          tasks = <<QueueTaskDelay(mr, rd)>>
    /\ running = FALSE
    /\ queue = <<>>
    /\ unfinished = 0
    /\ processing_task = None
    /\ loops = <<>>
    /\ puts = PutScheduled(<<>>, uuid4(<<>>))
    /\ stopping = {}
    /\ calls = <<0>>
    /\ reply = NoReply
    /\ stream = NoStream

DelaySpec == InitDelay /\ [][NextRunning]_vars

\* The worker loops that have not ended (by return or by cancellation).
ActiveLoops == {w \in LoopIds : Pending(loops[w])}
LoopAlive == ActiveLoops # {}

\* The loops whose callable is invoked and has not returned, raised or
\* been cancelled.
ExecutingLoops == {w \in LoopIds : Executing(loops[w])}

\* The records some loop holds (being executed, or in the retry wait).
Held == {loops[w].task : w \in ActiveLoops} \ {None}

InQueue(t) == \E i \in 1..Len(queue) : queue[i] = t
InPuts(t) == \E i \in 1..Len(puts) : puts[i] = t

\* A record left RUNNING by a loop that ended while executing it.
Interrupted(t) == tasks[t].status = RUNNING /\ t \notin Held

----------------------------------------------------------------------------

\* C1: in every reachable state at most one task's callable is being
\* executed, whatever the interleaving of add_task, start, stop and the
\* worker's steps.
C1_AtMostOneExecuting == Cardinality(ExecutingLoops) <= 1

\* C2: start() is idempotent: while running is true (start() calls with no
\* stop() since) exactly one worker loop is active, and in every reachable
\* state at most one worker loop that has not been cancelled drains the FIFO.
C2_StartIdempotent ==
    /\ running => Cardinality(ActiveLoops) = 1
    /\ Cardinality(ActiveLoops) <= 1

\* C3: retry_count <= max_retries for every task with a non-negative
\* max_retries, in every reachable state.
C3_RetryCountBounded ==
    \A t \in TaskIds :
        tasks[t].max_retries >= 0 => tasks[t].retry_count <= tasks[t].max_retries

\* C4: the status determines the retry counter: PENDING implies
\* retry_count = 0, RETRYING implies retry_count < max_retries and FAILED
\* implies retry_count = max_retries.
C4_StatusDeterminesRetryCount ==
    \A t \in TaskIds :
        /\ tasks[t].status = PENDING => tasks[t].retry_count = 0
        /\ tasks[t].status = RETRYING => tasks[t].retry_count < tasks[t].max_retries
        /\ tasks[t].status = FAILED => tasks[t].retry_count = tasks[t].max_retries

\* C5: the error of a status snapshot is non-null only when the status is
\* RETRYING or FAILED.
C5_ErrorOnlyWhenRetryingOrFailed ==
    \A t \in TaskIds :
        get_task_status(t).error # None
            => get_task_status(t).status \in {"retrying", "failed"}

\* C6: result is non-null only when the status is COMPLETED, in every
\* state a concurrent reader can observe or a cancellation can leave.
C6_ResultOnlyWhenCompleted ==
    \A t \in TaskIds : tasks[t].result # None => tasks[t].status = COMPLETED

\* One task completed with its result after a retry and after a restart,
\* another was left RUNNING by a cancelled attempt, without result.
C6_Witness ==
    /\ Len(loops) = 2
    /\ \E t \in TaskIds :
          /\ tasks[t].status = COMPLETED
          /\ tasks[t].result # None
          /\ tasks[t].retry_count > 0
    /\ \E u \in TaskIds : Interrupted(u) /\ tasks[u].result = None

\* The edges of the task state machine.
Edges ==
    { <<PENDING, RUNNING>>, <<RUNNING, COMPLETED>>, <<RUNNING, RETRYING>>,
      <<RUNNING, FAILED>>, <<RETRYING, RUNNING>> }

\* C7: every change of a status follows an edge of the state machine, a
\* task is created PENDING, and a COMPLETED or FAILED status never changes.
C7_StatusEdges ==
    [][ /\ \A t \in TaskIds :
             /\ t \in 1..Len(tasks')
             /\ tasks'[t].status # tasks[t].status
                   => <<tasks[t].status, tasks'[t].status>> \in Edges
             /\ tasks[t].status \in {COMPLETED, FAILED}
                   => tasks'[t].status = tasks[t].status
        /\ \A t \in 1..Len(tasks') :
             t \notin TaskIds => tasks'[t].status = PENDING ]_vars

\* One task COMPLETED after a retry and one FAILED, with a restarted loop
\* waiting on the empty FIFO.
C7_Witness ==
    /\ Len(loops) = 2
    /\ loops[2].pc = "get"
    /\ \E t \in TaskIds : tasks[t].status = COMPLETED /\ tasks[t].retry_count > 0
    /\ \E t \in TaskIds : tasks[t].status = FAILED

\* The record is where the worker will get to it: held by an active loop,
\* in the FIFO, or in a put that is still scheduled.
InFlight(t) == t \in Held \/ InQueue(t) \/ InPuts(t)

\* The record of identifier t, and its status, for any t: an identifier
\* not issued yet has no status and the fields of a fresh record.
Field(t) == IF t \in TaskIds THEN tasks[t] ELSE QueueTask(0)
Status(t) == IF t \in TaskIds THEN tasks[t].status ELSE "absent"

\* C8 as stated: with the worker running and not stopped, a task with
\* max_retries >= 1 whose callable was invoked once and failed is RETRYING
\* with retry_count 1 (and goes on to its second invocation).
C8_Original ==
    \A t \in TaskIds :
        (tasks[t].max_retries >= 1 /\ calls[t] = 1 /\ tasks[t].retry_count = 1)
            => tasks[t].status = RETRYING

\* C8 amended: with the worker running and not stopped, for max_retries >= 2
\* a task whose callable failed on its first invocation is RETRYING with
\* retry_count 1 until its second invocation; that invocation happens and
\* ends, and when it returns the task is COMPLETED with retry_count 1 and
\* the second return value.
C8_RetryThenComplete ==
    /\ [](\A t \in TaskIds :
            (tasks[t].max_retries >= 2 /\ calls[t] = 1 /\ tasks[t].retry_count = 1)
                => tasks[t].status = RETRYING)
    /\ [](\A t \in TaskIds :
            (tasks[t].status = COMPLETED /\ tasks[t].retry_count = 1)
                => /\ calls[t] = 2
                   /\ tasks[t].result = ReturnValue(2))
    /\ \A t \in 1..MaxTasks :
          (/\ Status(t) = RETRYING
           /\ Field(t).retry_count = 1)
          ~> (\/ /\ Status(t) = COMPLETED
                 /\ Field(t).retry_count = 1
                 /\ Field(t).result = ReturnValue(2)
              \/ Field(t).retry_count >= 2)

\* The callable failed once and then returned, with the loop never stopped.
C8_Witness ==
    /\ Len(loops) = 1
    /\ running
    /\ \E t \in TaskIds :
          /\ tasks[t].max_retries >= 2
          /\ tasks[t].status = COMPLETED
          /\ tasks[t].retry_count = 1
          /\ tasks[t].result = ReturnValue(2)

\* C9: with the worker running and not stopped, a task with max_retries =
\* N >= 1 whose callable fails on every invocation goes through RETRYING
\* with retry_count 1..N-1, one failure at a time, and is FAILED at the
\* N-th failure with retry_count = N, N invocations, the last failure's
\* text as error and completed_at set; a FAILED record is not on the FIFO
\* nor held by a loop; and once a loop is active a submitted task does
\* reach FAILED, or COMPLETED if an invocation returns.
C9_FailsAfterMaxRetries ==
    /\ [](\A t \in TaskIds :
            (tasks[t].status = FAILED /\ tasks[t].max_retries >= 1)
                => /\ tasks[t].retry_count = tasks[t].max_retries
                   /\ calls[t] = tasks[t].max_retries
                   /\ tasks[t].error = ErrorText(tasks[t].max_retries)
                   /\ tasks[t].completed_at
                   /\ ~InFlight(t))
    /\ [][\A t \in TaskIds :
            (tasks[t].max_retries >= 1 /\ tasks'[t].retry_count # tasks[t].retry_count)
                => /\ tasks[t].status = RUNNING
                   /\ tasks'[t].retry_count = tasks[t].retry_count + 1
                   /\ tasks'[t].status =
                         IF tasks'[t].retry_count < tasks[t].max_retries
                         THEN RETRYING ELSE FAILED]_vars
    /\ \A t \in 1..MaxTasks :
          (/\ Field(t).max_retries >= 1
           /\ t \in TaskIds
           /\ LoopAlive)
          ~> Status(t) \in {FAILED, COMPLETED}

\* A task with max_retries >= 2 failed for good while the loop ran on.
C9_Witness ==
    /\ Len(loops) = 1
    /\ running
    /\ \E t \in TaskIds :
          /\ tasks[t].max_retries >= 2
          /\ tasks[t].status = FAILED
          /\ calls[t] = tasks[t].max_retries

\* C10: a stop() that finds a loop suspended in a task's callable ends the
\* loop and leaves that record RUNNING and the FIFO as they were; a record
\* left RUNNING that way keeps its status, is not enqueued nor invoked
\* again, also across later start() calls; and the records in the FIFO are
\* dequeued once a loop is active again.
C10_StopWhileRunning ==
    /\ [][\A w \in LoopIds :
            (loops[w].pc = "await" /\ running /\ ~running')
                => /\ loops'[w].pc = "done"
                   /\ tasks' = tasks
                   /\ queue' = queue
                   /\ \A u \in TaskIds :
                         u = loops[w].task => Interrupted(u)']_vars
    /\ [][\A t \in TaskIds :
            Interrupted(t)
                => /\ Interrupted(t)'
                   /\ ~InFlight(t)'
                   /\ calls'[t] = calls[t]]_vars
    /\ \A t \in 1..MaxTasks :
          (/\ InQueue(t)
           /\ \E u \in TaskIds : Interrupted(u)
           /\ LoopAlive)
          ~> (~InQueue(t) \/ ~LoopAlive)

\* Some attempt has failed, and the record t is being executed by a loop.
SomeFailure == \E u \in TaskIds : tasks[u].retry_count > 0
ExecutedNow(t) == \E w \in LoopIds : Executing(loops[w]) /\ loops[w].task = t

\* C11: with the worker running, the step in which a callable's failure is
\* recorded (the record goes from RUNNING to RETRYING or to FAILED) leaves
\* running true and the loop that executed it active; and a record that is
\* in the FIFO, or in a scheduled put, once some attempt has failed is
\* dequeued and executed.
C11_FailureKeepsLoop ==
    /\ [][\A w \in LoopIds :
            (/\ running
             /\ Executing(loops[w])
             /\ \E t \in TaskIds :
                   /\ t = loops[w].task
                   /\ tasks'[t].status \in {RETRYING, FAILED})
                => /\ running'
                   /\ Pending(loops'[w])]_vars
    /\ \A t \in 1..MaxTasks :
          (/\ InQueue(t) \/ InPuts(t)
           /\ SomeFailure
           /\ LoopAlive)
          ~> ExecutedNow(t)

\* One task has FAILED and the same loop executes the next one.
C11_Witness ==
    /\ running
    /\ \E u \in TaskIds : \E t \in TaskIds :
          /\ tasks[u].status = FAILED
          /\ t > u
          /\ ExecutedNow(t)

\* How often the identifier t occurs in a sequence of identifiers, and the
\* loops that have taken the record t from the FIFO.
Occurrences(seq, t) == Cardinality({i \in 1..Len(seq) : seq[i] = t})
Holders(t) == {w \in LoopIds : loops[w].task = t}

\* C12: a step that adds a record adds exactly one, under an identifier
\* that was not in the table, PENDING with retry_count 0, leaves every
\* existing record as it was, invokes nothing and touches neither the FIFO
\* nor the loops (it does not wait for execution), and schedules one put of
\* the record; until the record's first attempt starts it is exactly once
\* in the scheduled puts, the FIFO or the hands of a loop; its put is not
\* scheduled again; and the scheduled put does put it on the FIFO.
C12_AddTaskOnce ==
    /\ [][Len(tasks') # Len(tasks)
            => /\ Len(tasks') = Len(tasks) + 1
               /\ Len(tasks') \notin TaskIds
               /\ \A t \in TaskIds : tasks'[t] = tasks[t] /\ calls'[t] = calls[t]
               /\ tasks'[Len(tasks')].status = PENDING
               /\ tasks'[Len(tasks')].retry_count = 0
               /\ calls'[Len(tasks')] = 0
               /\ loops' = loops
               /\ queue' = queue
               /\ Occurrences(puts', Len(tasks')) = 1
               /\ Occurrences(queue', Len(tasks')) = 0]_vars
    /\ [](\A t \in TaskIds :
            tasks[t].status = PENDING
                => Occurrences(puts, t) + Occurrences(queue, t)
                      + Cardinality(Holders(t)) = 1)
    /\ [][\A t \in TaskIds : ~InPuts(t) => ~InPuts(t)']_vars
    /\ \A t \in 1..MaxTasks : InPuts(t) ~> InQueue(t)

\* Two records were added, both still PENDING: the put of the first has
\* run, the put of the second is scheduled.
C12_Witness ==
    /\ Len(tasks) = 2
    /\ tasks[1].status = PENDING
    /\ tasks[2].status = PENDING
    /\ queue = <<1>>
    /\ puts = <<2>>

C15_StopSafe ==
    [][/\ (running' # running \/ stopping' # stopping)
            => /\ tasks' = tasks
               /\ queue' = queue
       /\ \A w \in LoopIds :
            (w \in stopping /\ w \notin stopping')
                => /\ ~Pending(loops[w])
                   /\ ~running => ActiveLoops = {}]_vars

\* C16: a get_task_status or get_all_tasks step changes nothing but the
\* reply (table, records, FIFO, running flag, loops); get_task_status
\* returns None for an identifier that was never submitted, and a snapshot
\* of the record (not None) for one that was.
C16_QueriesReadOnly ==
    [][reply'.op \in {"get_task_status", "get_all_tasks"}
          => /\ tasks' = tasks
             /\ queue' = queue
             /\ running' = running
             /\ <<unfinished, processing_task, loops, puts, stopping, calls>>'
                   = <<unfinished, processing_task, loops, puts, stopping, calls>>
             /\ reply'.op = "get_task_status"
                   => IF reply'.arg \in TaskIds
                      THEN /\ reply'.value # NoDict
                           /\ reply'.value.id = reply'.arg
                           /\ reply'.value.status = tasks[reply'.arg].status
                      ELSE reply'.value = NoDict]_vars

\* get_task_status has answered None for an identifier that was never
\* submitted, while records exist and the loop is at work.
C16_Witness ==
    /\ reply.op = "get_task_status"
    /\ reply.arg \notin TaskIds
    /\ reply.value = NoDict
    /\ Len(tasks) = MaxTasks
    /\ \E t \in TaskIds : ExecutedNow(t)

\* C17: the status route answers a request for an identifier unknown to
\* the queue manager with the 404 outcome.
C17_UnknownIs404 ==
    (reply.op = "status_route" /\ reply.arg \notin TaskIds)
        => reply.value.status_code = 404

C19_FirstAttemptSucceeds ==
    /\ [](\A t \in TaskIds :
            (tasks[t].status = COMPLETED /\ tasks[t].retry_count = 0)
                => /\ calls[t] = 1
                   /\ tasks[t].result = ReturnValue(1)
                   /\ tasks[t].error = None
                   /\ tasks[t].completed_at
                   /\ get_task_status(t).error = None
                   /\ get_task_status(t).progress = Whole(100))
    /\ [][\A t \in TaskIds :
            (/\ ExecutedNow(t)
             /\ tasks[t].retry_count = 0
             /\ tasks'[t].retry_count = 0
             /\ tasks'[t].status # RUNNING)
                => tasks'[t].status = COMPLETED]_vars
    /\ \A t \in 1..MaxTasks :
          (t \in TaskIds /\ LoopAlive)
          ~> (\/ Status(t) = COMPLETED /\ Field(t).retry_count = 0
              \/ Field(t).retry_count >= 1)

\* The first invocation returned: COMPLETED with retry_count 0 while the
\* loop goes on with running true.
C19_Witness ==
    /\ running
    /\ LoopAlive
    /\ \E t \in TaskIds :
          /\ tasks[t].status = COMPLETED
          /\ tasks[t].retry_count = 0
          /\ tasks[t].result = ReturnValue(1)

\* C20: a RETRYING task is never lost: in every reachable state, stop()
\* during the retry-delay wait and a later start() included, a RETRYING
\* record is held by an active worker loop (waiting out its retry delay,
\* or just dequeued for its next attempt) or is present in the FIFO.
C20_RetryingNotLost ==
    \A t \in TaskIds :
        tasks[t].status = RETRYING => (t \in Held \/ InQueue(t))

\* The manager started and never stopped, with callables that end in any
\* of the three ways: nobody calls stop(), and an invoked callable returns,
\* raises an Exception or raises CancelledError.
NextNeverStopped ==
    \/ NextRunning
    \/ \E w \in LoopIds : CallableCancelled(w)

NeverStoppedSpec == Init /\ [][NextNeverStopped]_vars /\ Fairness

\* C21: if the worker loop is started and never stopped, and every
\* invocation of every callable returns or raises, then every submitted
\* task eventually reaches a terminal status (COMPLETED or FAILED).
C21_AllTerminate ==
    \A t \in 1..MaxTasks :
        (t \in TaskIds /\ LoopAlive) ~> (Status(t) \in {COMPLETED, FAILED})

\* The loops suspended in asyncio.sleep(task.retry_delay): their record is
\* RETRYING and not yet put back.
RetryWaiting == {w \in LoopIds : loops[w].pc = "sleep"}

\* C22: while one task is waiting out its retry delay (RETRYING, not yet
\* re-pushed), no step dequeues a record, marks a task RUNNING or invokes
\* a callable: the other queued tasks begin only after the delay is over
\* and the failed task is back in the FIFO.
C22_RetryWaitBlocks ==
    [][RetryWaiting # {}
         => /\ Len(queue') >= Len(queue)
            /\ \A t \in TaskIds :
                  /\ calls'[t] = calls[t]
                  /\ tasks'[t].status = RUNNING => tasks[t].status = RUNNING]_vars

\* C23: whenever the running flag is true there is a live (not finished,
\* not cancelled) worker loop, after any interleaving of start(), stop(),
\* submissions and callable outcomes, a callable that ends by raising
\* CancelledError included.
C23_RunningHasLoop == running => LoopAlive

\* C24: in every reachable state each record occurs at most once in the
\* FIFO, and a record that a loop holds (being executed, or in its retry
\* wait) or whose status is COMPLETED or FAILED does not occur in the FIFO;
\* so completed_at is set at most once per task: it is set exactly in the
\* terminal records, and a terminal record is in no scheduled put, in no
\* loop's hands and not in the FIFO, so that no attempt can end again.
C24_OnceInFifo ==
    \A t \in TaskIds :
        /\ Occurrences(queue, t) <= 1
        /\ (t \in Held \/ tasks[t].status \in {COMPLETED, FAILED})
              => ~InQueue(t)
        /\ tasks[t].completed_at <=> tasks[t].status \in {COMPLETED, FAILED}
        /\ tasks[t].status \in {COMPLETED, FAILED} => ~InFlight(t)

\* One record is back in the FIFO for its retry while another one, retried
\* before, is terminal with completed_at set.
C24_Witness ==
    /\ \E t \in TaskIds : tasks[t].status = RETRYING /\ InQueue(t)
    /\ \E t \in TaskIds : tasks[t].status \in {COMPLETED, FAILED}
                             /\ tasks[t].completed_at
                             /\ tasks[t].retry_count > 0

\* C25: at the queue layer the wait before every re-enqueue of a failed
\* task is that task's retry_delay, the same for every retry_count: a loop
\* in its retry wait sleeps for retry_delay seconds, and the step that
\* puts a record back on the FIFO ends such a wait.
C25_FixedRetryDelay ==
    /\ [](\A w \in LoopIds :
            loops[w].pc = "sleep"
                => /\ tasks[loops[w].task].status = RETRYING
                   /\ tasks[loops[w].task].retry_count >= 1
                   /\ loops[w].wait = tasks[loops[w].task].retry_delay)
    /\ [][\A t \in TaskIds :
            (tasks[t].status = RETRYING /\ InQueue(t)' /\ ~InQueue(t))
                => \E w \in LoopIds :
                      /\ loops[w].pc = "sleep"
                      /\ loops[w].task = t
                      /\ loops[w].wait = tasks[t].retry_delay
                      /\ loops'[w].pc # "sleep"]_vars

\* The wait before the third attempt of a task submitted with a
\* retry_delay that is not the default: retry_count 2, the same wait as
\* before the second attempt.
C25_Witness ==
    \E w \in LoopIds :
        /\ loops[w].pc = "sleep"
        /\ tasks[loops[w].task].retry_count = 2
        /\ tasks[loops[w].task].retry_delay = MaxDelay
        /\ loops[w].wait = MaxDelay

-----------------------------------------------------------------------------
(***************************************************************************)
(* OpenAIService.stream_chat_completion of                                 *)
(* backend/app/services/openai_service.py: one call of the async           *)
(* generator, consumed to its end.  A step is one pass of the `for         *)
(* attempt` body up to its return, raise or asyncio.sleep; the yields of   *)
(* chunks and of status messages are part of the step they occur in.       *)
(***************************************************************************)

\* How an API attempt (create and the iteration of its stream) ends.
RATE_LIMIT == "RateLimitError"
TIMEOUT == "APITimeoutError"
OTHER_ERROR == "other error"
OK == "ok"
Outcomes == {OK, RATE_LIMIT, TIMEOUT, OTHER_ERROR}

\* Python's None for last_error, and for a generator that has not raised.
NoError == "None"

\* The failures that have an `except` clause with a retry.
Retried == {RATE_LIMIT, TIMEOUT}

\* wait_time = retry_delay * (2 ** attempt)
wait_time_linear(retry_delay, attempt) == retry_delay * (attempt + 1)
wait_time(retry_delay, attempt) == retry_delay * 2^attempt

\* `if attempt < max_retries` of the two retrying handlers.
WaitsAgain(attempt, max_retries) == attempt < max_retries

\* range(max_retries + 1) has a next value for the loop variable.
InRange(attempt, max_retries) == attempt >= 0 /\ attempt < max_retries + 1

\* The call is made and the generator is about to enter its loop.
InitStream ==
    /\ tasks = <<>>
    /\ running = FALSE
    /\ queue = <<>>
    /\ unfinished = 0
    /\ processing_task = None
    /\ loops = <<>>
    /\ puts = <<>>
    /\ stopping = {}
    /\ calls = <<>>
    /\ reply = NoReply
    /\ \E mr \in -1..MaxStreamRetries : \E rd \in 1..MaxDelay :
          stream = [pc |-> "for", attempt |-> 0,
                    max_retries |-> mr, retry_delay |-> rd,
                    api_calls |-> 0, waits |-> <<>>,
                    last_error |-> NoError, raised |-> NoError]

\* One pass of the loop body: the API attempt and what its outcome leads to.
CreateCompletion(outcome) ==
    /\ stream.pc = "for"
    /\ InRange(stream.attempt, stream.max_retries)
    /\ stream' =
         LET made == [stream EXCEPT !.api_calls = @ + 1] IN
         IF outcome = OK
         THEN [made EXCEPT !.pc = "returned"]
         ELSE IF outcome \in Retried
         THEN IF WaitsAgain(stream.attempt, stream.max_retries)
              THEN [made EXCEPT !.pc = "sleep", !.last_error = outcome,
                                !.waits = Append(@, wait_time(stream.retry_delay,
                                                              stream.attempt))]
              ELSE [made EXCEPT !.pc = "raised", !.last_error = outcome,
                                !.raised = "Exception"]
         ELSE [made EXCEPT !.pc = "raised", !.last_error = outcome,
                           !.raised = outcome]
    /\ UNCHANGED <<tasks, running, queue, unfinished, processing_task, loops, puts, stopping, calls, reply>>

\* asyncio.sleep(wait_time) is over: the loop takes the next attempt.
BackoffDone ==
    /\ stream.pc = "sleep"
    /\ stream' = [stream EXCEPT !.pc = "for", !.attempt = @ + 1]
    /\ UNCHANGED <<tasks, running, queue, unfinished, processing_task, loops, puts, stopping, calls, reply>>

\* range(max_retries + 1) is exhausted: `if last_error: raise last_error`,
\* else the generator ends.
LoopExhausted ==
    /\ stream.pc = "for"
    /\ ~InRange(stream.attempt, stream.max_retries)
    /\ stream' = IF stream.last_error # NoError
                 THEN [stream EXCEPT !.pc = "raised", !.raised = stream.last_error]
                 ELSE [stream EXCEPT !.pc = "returned"]
    /\ UNCHANGED <<tasks, running, queue, unfinished, processing_task, loops, puts, stopping, calls, reply>>

NextStream ==
    \/ \E outcome \in Outcomes : CreateCompletion(outcome)
    \/ BackoffDone
    \/ LoopExhausted

\* The consumer keeps iterating and every API attempt and sleep ends.
StreamSpec == InitStream /\ [][NextStream]_vars /\ WF_vars(NextStream)

StreamEnded == stream.pc \in {"returned", "raised"}

\* C26: stream_chat_completion retries only rate-limit and timeout
\* failures, with exponential backoff: the wait before retry number k
\* (k = 0, 1, ...) is retry_delay * 2^k; at most max_retries + 1 API
\* attempts are made; after the last failed attempt it raises instead of
\* waiting again; any other failure is raised by the attempt it occurs in,
\* with no wait and no further attempt; and the call always terminates.
C26_StreamBackoff ==
    /\ [](/\ \A k \in 0..(Len(stream.waits) - 1) :
                 stream.waits[k + 1] = stream.retry_delay * 2^k
           /\ stream.api_calls <= (IF stream.max_retries + 1 > 0
                                    THEN stream.max_retries + 1 ELSE 0)
           /\ Len(stream.waits) <= stream.api_calls
           /\ (stream.pc = "sleep"
                 => (/\ stream.api_calls <= stream.max_retries
                     /\ stream.last_error \in Retried
                     /\ Len(stream.waits) = stream.api_calls))
           /\ (StreamEnded
                 => (Len(stream.waits) \in
                        {stream.api_calls - 1, stream.api_calls}))
           /\ ((StreamEnded /\ Len(stream.waits) = stream.api_calls)
                 => (stream.api_calls = 0)))
    /\ [][/\ (Len(stream'.waits) > Len(stream.waits)
                 => (/\ stream'.last_error \in Retried
                     /\ stream'.api_calls = stream.api_calls + 1
                     /\ stream'.api_calls <= stream.max_retries))
           /\ ((/\ stream'.api_calls # stream.api_calls
                /\ stream'.last_error = OTHER_ERROR)
                 => (/\ stream'.api_calls = stream.api_calls + 1
                     /\ stream'.pc = "raised"
                     /\ stream'.raised = OTHER_ERROR
                     /\ stream'.waits = stream.waits))
           /\ ((/\ stream'.api_calls # stream.api_calls
                /\ stream'.api_calls = stream.max_retries + 1
                /\ stream'.pc # "returned")
                 => (/\ stream'.pc = "raised"
                     /\ stream'.waits = stream.waits))
           /\ (StreamEnded => stream' = stream)]_vars
    /\ <>StreamEnded

\* The last attempt of a call with max_retries 3 failed by a timeout after
\* three waits of retry_delay, 2 * retry_delay and 4 * retry_delay, and the
\* call raised.
C26_Witness ==
    /\ stream.pc = "raised"
    /\ stream.max_retries = 3
    /\ stream.api_calls = 4
    /\ stream.last_error = TIMEOUT
    /\ stream.raised = "Exception"
    /\ stream.waits = <<stream.retry_delay, 2 * stream.retry_delay,
                        4 * stream.retry_delay>>

====
